---- MODULE Spec2Model ----
(***************************************************************************)
(* GOAT Scribe: the note-generation safety pipeline (GOATScribe.__call__), *)
(* the rule-based guardrail engine (EDGuardrails), the session lifecycle   *)
(* (GOATScribe.wipe) and the command-line entry point (cli.main).          *)
(*                                                                         *)
(* Text is a sequence of one-character strings, so that the regular        *)
(* expressions of the guardrail engine are computed character by           *)
(* character, as Python's re module computes them.                         *)
(***************************************************************************)
EXTENDS Integers, Sequences, FiniteSets, TLC

(***************************************************************************)
(* Characters and the character classes of Python's re.                    *)
(***************************************************************************)
DigitChars == <<"0","1","2","3","4","5","6","7","8","9">>

UpperChars == <<"A","B","C","D","E","F","G","H","I","J","K","L","M",
                "N","O","P","Q","R","S","T","U","V","W","X","Y","Z">>

LowerChars == <<"a","b","c","d","e","f","g","h","i","j","k","l","m",
                "n","o","p","q","r","s","t","u","v","w","x","y","z">>

\* \d
IsDigit(c) == \E k \in DOMAIN DigitChars : DigitChars[k] = c

DigitVal(c) == (CHOOSE k \in DOMAIN DigitChars : DigitChars[k] = c) - 1

\* str.lower() of one character; re.IGNORECASE compares the lowered characters
Lower(c) ==
    IF \E k \in DOMAIN UpperChars : UpperChars[k] = c
    THEN LowerChars[CHOOSE k \in DOMAIN UpperChars : UpperChars[k] = c]
    ELSE c

LowerText(t) == [k \in DOMAIN t |-> Lower(t[k])]

\* \s
IsSpace(c) == c \in {" ", "\n", "\t", "\r"}

\* [:\s]
IsSep(c) == c = ":" \/ IsSpace(c)

\* \w
IsWordChar(c) ==
    \/ IsDigit(c)
    \/ c = "_"
    \/ \E k \in DOMAIN LowerChars : LowerChars[k] = Lower(c)

\* str.strip() leaves nothing: `not prompt or not prompt.strip()`
IsBlank(t) == \A k \in DOMAIN t : IsSpace(t[k])

(***************************************************************************)
(* Regular expressions.  A pattern is the sequence of its elements, each   *)
(* with the number of the group that captures it (0: none):                *)
(*   lit   a literal, compared under re.IGNORECASE                         *)
(*   plus  X+ for a character class X, greedy                              *)
(*   star  X* for a character class X, greedy                              *)
(*   opt   (a|b|...)? : the first alternative that matches, or nothing     *)
(*   b     the word boundary \b                                            *)
(* Positions are 1-based.  In every pattern of the guardrails the          *)
(* character after a greedy run is outside the run's class or optional, so *)
(* the greedy match is the only match and nothing backtracks.              *)
(***************************************************************************)
Lit(text, cap) == [t |-> "lit", text |-> text, cls |-> "", alts |-> <<>>, cap |-> cap]

Plus(cls, cap) == [t |-> "plus", text |-> <<>>, cls |-> cls, alts |-> <<>>, cap |-> cap]

Star(cls, cap) == [t |-> "star", text |-> <<>>, cls |-> cls, alts |-> <<>>, cap |-> cap]

Opt(alts, cap) == [t |-> "opt", text |-> <<>>, cls |-> "", alts |-> alts, cap |-> cap]

WordBoundary == [t |-> "b", text |-> <<>>, cls |-> "", alts |-> <<>>, cap |-> 0]

InClass(cls, c) ==
    CASE cls = "\\d"    -> IsDigit(c)
      [] cls = "\\s"    -> IsSpace(c)
      [] cls = "[:\\s]" -> IsSep(c)

\* a literal, under re.IGNORECASE, at position p
MatchLit(note, p, lit) ==
    /\ p + Len(lit) - 1 <= Len(note)
    /\ \A k \in DOMAIN lit : Lower(note[p + k - 1]) = Lower(lit[k])

\* the position after the longest run of characters of class cls from p on
RunEnd(note, p, cls) ==
    CHOOSE q \in p..(Len(note) + 1) :
        /\ (q = Len(note) + 1 \/ ~InClass(cls, note[q]))
        /\ \A r \in p..(q - 1) : InClass(cls, note[r])

\* \b at position p: exactly one of the characters around it is a word character
AtBoundary(note, p) ==
    (p > 1 /\ IsWordChar(note[p - 1])) # (p <= Len(note) /\ IsWordChar(note[p]))

\* the position after the first alternative that matches at p, or p
OptEnd(note, p, alts) ==
    IF \E j \in DOMAIN alts : MatchLit(note, p, alts[j])
    THEN p + Len(alts[CHOOSE j \in DOMAIN alts :
                        /\ MatchLit(note, p, alts[j])
                        /\ \A i \in 1..(j - 1) : ~MatchLit(note, p, alts[i])])
    ELSE p

Failed == 0

OrFail(cond, q) == IF cond THEN q ELSE Failed

NonEmptyRun(p, q) == IF q > p THEN q ELSE Failed

\* the position after element el matched at p, or Failed
ElemEnd(note, p, el) ==
    CASE el.t = "lit"  -> OrFail(MatchLit(note, p, el.text), p + Len(el.text))
      [] el.t = "plus" -> NonEmptyRun(p, RunEnd(note, p, el.cls))
      [] el.t = "star" -> RunEnd(note, p, el.cls)
      [] el.t = "opt"  -> OptEnd(note, p, el.alts)
      [] el.t = "b"    -> OrFail(AtBoundary(note, p), p)

\* a match object: group(0) is g0; a group that did not take part is <<>>
NoMatch == [ok |-> FALSE, start |-> 0, end |-> 0, g0 |-> <<>>, g1 |-> <<>>,
            g2 |-> <<>>]

NewMatch(p) == [NoMatch EXCEPT !.start = p]

Captured(m, cap, text) ==
    CASE cap = 0 -> m
      [] cap = 1 -> [m EXCEPT !.g1 = @ \o text]
      [] cap = 2 -> [m EXCEPT !.g2 = @ \o text]

\* the elements k.. of pat matched from position q on, m holding the groups
RECURSIVE MatchFrom(_, _, _, _, _)
RECURSIVE MatchNext(_, _, _, _, _, _)
MatchFrom(note, q, pat, k, m) ==
    IF k > Len(pat)
    THEN [m EXCEPT !.ok = TRUE, !.end = q, !.g0 = SubSeq(note, m.start, q - 1)]
    ELSE MatchNext(note, q, pat, k, m, ElemEnd(note, q, pat[k]))

MatchNext(note, q, pat, k, m, e) ==
    IF e = Failed THEN NoMatch
    ELSE MatchFrom(note, e, pat, k + 1,
                   Captured(m, pat[k].cap, SubSeq(note, q, e - 1)))

\* pattern.match at position p
MatchAt(note, p, pat) == MatchFrom(note, p, pat, 1, NewMatch(p))

\* the first position of lo..hi at which pat matches, or Failed; the
\* interval is halved so that a long note needs no deep recursion
RECURSIVE FirstMatch(_, _, _, _)
RECURSIVE FirstOr(_, _, _, _, _)
FirstMatch(note, lo, hi, pat) ==
    IF lo > hi THEN Failed
    ELSE IF lo = hi THEN OrFail(MatchAt(note, lo, pat).ok, lo)
    ELSE FirstOr(FirstMatch(note, lo, (lo + hi) \div 2, pat),
                 note, (lo + hi) \div 2 + 1, hi, pat)

FirstOr(left, note, lo, hi, pat) ==
    IF left # Failed THEN left ELSE FirstMatch(note, lo, hi, pat)

\* re.finditer: the non-overlapping matches, scanning from position p
RECURSIVE FindIterFrom(_, _, _)
RECURSIVE FindIterNext(_, _, _)
FindIterFrom(note, p, pat) ==
    FindIterNext(note, pat, FirstMatch(note, p, Len(note), pat))

FindIterNext(note, pat, q) ==
    IF q = Failed THEN <<>>
    ELSE <<MatchAt(note, q, pat)>> \o FindIterFrom(note, MatchAt(note, q, pat).end, pat)

FindIter(note, pat) == FindIterFrom(note, 1, pat)

\* re.search(pat, note) is not None
Search(note, pat) == \E p \in 1..Len(note) : MatchAt(note, p, pat).ok

(***************************************************************************)
(* Numbers.  int() of a digit string; float() of a captured decimal is     *)
(* kept exact, as num / 10^scale.                                          *)
(***************************************************************************)
RECURSIVE ParseInt(_)
ParseInt(ds) ==
    IF Len(ds) = 0 THEN 0
    ELSE ParseInt(SubSeq(ds, 1, Len(ds) - 1)) * 10 + DigitVal(ds[Len(ds)])

\* int() raises ValueError for a digit string longer than the interpreter's
\* limit, sys.get_int_max_str_digits(), which is 4300 unless it was changed
INT_MAX_STR_DIGITS == 4300

IntRaises(ds) == Len(ds) > INT_MAX_STR_DIGITS

RECURSIVE Pow10(_)
Pow10(n) == IF n = 0 THEN 1 ELSE 10 * Pow10(n - 1)

ParseFloat(ds) ==
    LET dot == IF \E k \in DOMAIN ds : ds[k] = "."
               THEN CHOOSE k \in DOMAIN ds : ds[k] = "."
               ELSE Len(ds) + 1
    IN  [num   |-> ParseInt(SubSeq(ds, 1, dot - 1) \o SubSeq(ds, dot + 1, Len(ds))),
         scale |-> IF dot > Len(ds) THEN 0 ELSE Len(ds) - dot]

\* x <= y and x < y for x = a.num / 10^a.scale, y = b.num / 10^b.scale
DecLeq(a, b) == a.num * Pow10(b.scale) <= b.num * Pow10(a.scale)

DecLess(a, b) == a.num * Pow10(b.scale) < b.num * Pow10(a.scale)

Dec(n) == [num |-> n, scale |-> 0]

(***************************************************************************)
(* EDGuardrails: the tables.                                               *)
(***************************************************************************)
\* (min, max) per vital; temperature is 90.0 .. 108.0 Fahrenheit
VITAL_RANGES ==
    [heart_rate               |-> <<20, 250>>,
     blood_pressure_systolic  |-> <<40, 250>>,
     blood_pressure_diastolic |-> <<20, 180>>,
     respiratory_rate         |-> <<4, 60>>,
     temperature              |-> <<90, 108>>,
     spo2                     |-> <<40, 100>>,
     gcs                      |-> <<3, 15>>]

\* the dict in insertion order; max_dose is the number as written in the
\* table (nitroglycerin 0.4 = 4 / 10^1), whatever unit its comment names
MEDICATION_LIMITS ==
    <<
       [name |-> <<"m","o","r","p","h","i","n","e">>,
        rule |-> "medication_morphine_dose", max_dose |-> [num |-> 15, scale |-> 0]],
       [name |-> <<"f","e","n","t","a","n","y","l">>,
        rule |-> "medication_fentanyl_dose", max_dose |-> [num |-> 200, scale |-> 0]],
       [name |-> <<"m","i","d","a","z","o","l","a","m">>,
        rule |-> "medication_midazolam_dose", max_dose |-> [num |-> 10, scale |-> 0]],
       [name |-> <<"l","o","r","a","z","e","p","a","m">>,
        rule |-> "medication_lorazepam_dose", max_dose |-> [num |-> 4, scale |-> 0]],
       [name |-> <<"e","p","i","n","e","p","h","r","i","n","e">>,
        rule |-> "medication_epinephrine_dose", max_dose |-> [num |-> 1, scale |-> 0]],
       [name |-> <<"a","t","r","o","p","i","n","e">>,
        rule |-> "medication_atropine_dose", max_dose |-> [num |-> 3, scale |-> 0]],
       [name |-> <<"a","d","e","n","o","s","i","n","e">>,
        rule |-> "medication_adenosine_dose", max_dose |-> [num |-> 12, scale |-> 0]],
       [name |-> <<"a","m","i","o","d","a","r","o","n","e">>,
        rule |-> "medication_amiodarone_dose", max_dose |-> [num |-> 300, scale |-> 0]],
       [name |-> <<"n","a","l","o","x","o","n","e">>,
        rule |-> "medication_naloxone_dose", max_dose |-> [num |-> 10, scale |-> 0]],
       [name |-> <<"a","s","p","i","r","i","n">>,
        rule |-> "medication_aspirin_dose", max_dose |-> [num |-> 325, scale |-> 0]],
       [name |-> <<"n","i","t","r","o","g","l","y","c","e","r","i","n">>,
        rule |-> "medication_nitroglycerin_dose", max_dose |-> [num |-> 4, scale |-> 1]]
    >>

\* the list in order; rule is f"protocol_{protocol.lower()}"
CRITICAL_PROTOCOLS ==
    <<
       [name |-> <<"A","C","L","S">>,
        rule |-> "protocol_acls"],
       [name |-> <<"A","T","L","S">>,
        rule |-> "protocol_atls"],
       [name |-> <<"T","r","a","u","m","a">>,
        rule |-> "protocol_trauma"],
       [name |-> <<"S","e","p","s","i","s">>,
        rule |-> "protocol_sepsis"],
       [name |-> <<"S","t","r","o","k","e">>,
        rule |-> "protocol_stroke"],
       [name |-> <<"S","T","E","M","I">>,
        rule |-> "protocol_stemi"],
       [name |-> <<"D","K","A">>,
        rule |-> "protocol_dka"],
       [name |-> <<"S","t","a","t","u","s"," ","E","p","i","l","e","p","t","i","c","u","s">>,
        rule |-> "protocol_status epilepticus"]
    >>

\* r"HR[:\s]+(\d+)", r"heart rate[:\s]+(\d+)", r"pulse[:\s]+(\d+)"
hr_patterns ==
    << <<Lit(<<"H","R">>, 0), Plus("[:\\s]", 0), Plus("\\d", 1)>>,
       <<Lit(<<"h","e","a","r","t"," ","r","a","t","e">>, 0),
         Plus("[:\\s]", 0), Plus("\\d", 1)>>,
       <<Lit(<<"p","u","l","s","e">>, 0), Plus("[:\\s]", 0), Plus("\\d", 1)>> >>

\* r"BP[:\s]+(\d+)/(\d+)"
bp_pattern ==
    <<Lit(<<"B","P">>, 0), Plus("[:\\s]", 0), Plus("\\d", 1), Lit(<<"/">>, 0),
      Plus("\\d", 2)>>

\* r"Temp[:\s]+(\d+\.?\d*)", r"Temperature[:\s]+(\d+\.?\d*)"
temp_patterns ==
    << <<Lit(<<"T","e","m","p">>, 0), Plus("[:\\s]", 0),
         Plus("\\d", 1), Opt(<< <<".">> >>, 1), Star("\\d", 1)>>,
       <<Lit(<<"T","e","m","p","e","r","a","t","u","r","e">>, 0),
         Plus("[:\\s]", 0),
         Plus("\\d", 1), Opt(<< <<".">> >>, 1), Star("\\d", 1)>> >>

\* rf"{med_name}\s+(\d+\.?\d*)\s*(mg|mcg)?"
med_pattern(med_name) ==
    <<Lit(med_name, 0), Plus("\\s", 0),
      Plus("\\d", 1), Opt(<< <<".">> >>, 1), Star("\\d", 1),
      Star("\\s", 0), Opt(<< <<"m","g">>, <<"m","c","g">> >>, 2)>>

\* rf"\b{protocol}\b"
\* a mutant of protocol_pattern: the name anywhere, also inside a word
protocol_pattern_substring(protocol) == <<Lit(protocol, 0)>>

protocol_pattern(protocol) == <<WordBoundary, Lit(protocol, 0), WordBoundary>>

(***************************************************************************)
(* EDGuardrails: the checks.                                               *)
(***************************************************************************)
\* the dataclass; message keeps the f-string's template and its arguments
GuardrailViolation(rule, severity, message, location) ==
    [rule |-> rule, severity |-> severity, message |-> message,
     location |-> location]

Message(fmt, nums, strs) == [fmt |-> fmt, nums |-> nums, strs |-> strs]

\* list.extend over a list of lists
RECURSIVE ConcatAll(_)
ConcatAll(ss) ==
    IF Len(ss) = 0 THEN <<>> ELSE Head(ss) \o ConcatAll(Tail(ss))

\* a mutant of OutOfRange: the two ends of the range are out of it
OutOfRange_exclusive(v, range) == ~(range[1] < v /\ v < range[2])

OutOfRange(v, range) == ~(range[1] <= v /\ v <= range[2])

\* the body of `for match in matches` of the heart-rate patterns
HeartRateViolation(match, hr, range) ==
    IF OutOfRange(hr, range)
    THEN <<GuardrailViolation("vital_signs_heart_rate", "critical",
              Message("Heart rate {hr} is outside valid range", <<hr>> \o range,
                      <<>>),
              match.g0)>>
    ELSE <<>>

HeartRateViolations(matches) ==
    ConcatAll([k \in DOMAIN matches |->
                 HeartRateViolation(matches[k], ParseInt(matches[k].g1),
                                    VITAL_RANGES.heart_rate)])

\* the body of `for match in matches` of the blood-pressure pattern
BloodPressureViolation(match, sys, dia, sys_range, dia_range) ==
    (IF OutOfRange(sys, sys_range)
     THEN <<GuardrailViolation("vital_signs_bp_systolic", "critical",
               Message("Systolic BP {sys} is outside valid range",
                       <<sys>> \o sys_range, <<>>),
               match.g0)>>
     ELSE <<>>)
    \o
    (IF OutOfRange(dia, dia_range)
     THEN <<GuardrailViolation("vital_signs_bp_diastolic", "critical",
               Message("Diastolic BP {dia} is outside valid range",
                       <<dia>> \o dia_range, <<>>),
               match.g0)>>
     ELSE <<>>)

BloodPressureViolations(matches) ==
    ConcatAll([k \in DOMAIN matches |->
                 BloodPressureViolation(matches[k], ParseInt(matches[k].g1),
                                        ParseInt(matches[k].g2),
                                        VITAL_RANGES.blood_pressure_systolic,
                                        VITAL_RANGES.blood_pressure_diastolic)])

\* the body of `for match in matches` of the temperature patterns
TemperatureViolation(match, temp, range) ==
    IF ~(DecLeq(Dec(range[1]), temp) /\ DecLeq(temp, Dec(range[2])))
    THEN <<GuardrailViolation("vital_signs_temperature", "critical",
              Message("Temperature {temp}F is outside valid range",
                      <<temp.num, temp.scale>> \o range, <<>>),
              match.g0)>>
    ELSE <<>>

TemperatureViolations(matches) ==
    ConcatAll([k \in DOMAIN matches |->
                 TemperatureViolation(matches[k], ParseFloat(matches[k].g1),
                                      VITAL_RANGES.temperature)])

_check_vitals(note) ==
    ConcatAll([k \in DOMAIN hr_patterns |->
                 HeartRateViolations(FindIter(note, hr_patterns[k]))])
    \o BloodPressureViolations(FindIter(note, bp_pattern))
    \o ConcatAll([k \in DOMAIN temp_patterns |->
                    TemperatureViolations(FindIter(note, temp_patterns[k]))])

\* some int(match.group(...)) of _check_vitals raises; nothing catches it.
\* float() of the temperature and of the dose has no such limit
AnyIntRaises(matches) ==
    \E k \in DOMAIN matches :
        IntRaises(matches[k].g1) \/ IntRaises(matches[k].g2)

_check_vitals_raises(note) ==
    \/ \E k \in DOMAIN hr_patterns : AnyIntRaises(FindIter(note, hr_patterns[k]))
    \/ AnyIntRaises(FindIter(note, bp_pattern))

\* unit = match.group(2) if match.group(2) else "mg"
UnitOf(g2) == IF Len(g2) > 0 THEN g2 ELSE <<"m","g">>

\* dose = float(match.group(1)); dose = dose / 1000 when unit.lower() == "mcg"
DoseOf(parsed, unit) ==
    IF LowerText(unit) = <<"m","c","g">>
    THEN [num |-> parsed.num, scale |-> parsed.scale + 3]
    ELSE parsed

\* the body of `for match in matches` of one medication
MedicationViolation(med, match, unit) ==
    IF DecLess(med.max_dose, DoseOf(ParseFloat(match.g1), unit))
    THEN <<GuardrailViolation(med.rule, "critical",
              Message("{med} dose {dose}{unit} exceeds max safe dose",
                      <<med.max_dose.num, med.max_dose.scale>>,
                      <<med.name, match.g1, unit>>),
              match.g0)>>
    ELSE <<>>

MedicationViolations(med, matches) ==
    ConcatAll([k \in DOMAIN matches |->
                 MedicationViolation(med, matches[k], UnitOf(matches[k].g2))])

_check_medications(note) ==
    ConcatAll([k \in DOMAIN MEDICATION_LIMITS |->
                 MedicationViolations(MEDICATION_LIMITS[k],
                    FindIter(note, med_pattern(MEDICATION_LIMITS[k].name)))])

\* the body of `for protocol in self.CRITICAL_PROTOCOLS`
ProtocolViolation(note, protocol) ==
    IF Search(note, protocol_pattern(protocol.name))
    THEN <<GuardrailViolation(protocol.rule, "warning",
              Message("{protocol} protocol mentioned", <<>>, <<protocol.name>>),
              protocol.name)>>
    ELSE <<>>

_check_protocols(note) ==
    ConcatAll([k \in DOMAIN CRITICAL_PROTOCOLS |->
                 ProtocolViolation(note, CRITICAL_PROTOCOLS[k])])

IsCritical(v) == v.severity = "critical"

IsWarning(v) == v.severity = "warning"

\* a mutant of is_safe_of: any violation makes the note unsafe
is_safe_of_any(violations) == Len(violations) = 0

\* critical_violations = [...]; is_safe = len(critical_violations) == 0
is_safe_of(violations) == Len(SelectSeq(violations, IsCritical)) = 0

\* the constructor: the three enable flags
EDGuardrails(enable_vitals, enable_meds, enable_protocols) ==
    [enable_vitals |-> enable_vitals, enable_meds |-> enable_meds,
     enable_protocols |-> enable_protocols]

\* the (is_safe, violations) that validate_note returns
Report(violations) ==
    [is_safe |-> is_safe_of(violations), violations |-> violations]

\* validate_note ends with the ValueError of _check_vitals
validate_note_raises(self, note) ==
    self.enable_vitals /\ _check_vitals_raises(note)

\* a mutant of validate_note: the medication check runs whatever its flag is
validate_note_meds_always(self, note) ==
    Report((IF self.enable_vitals THEN _check_vitals(note) ELSE <<>>)
           \o _check_medications(note)
           \o (IF self.enable_protocols THEN _check_protocols(note) ELSE <<>>))

\* validate_note when it returns
validate_note(self, note) ==
    Report((IF self.enable_vitals THEN _check_vitals(note) ELSE <<>>)
           \o (IF self.enable_meds THEN _check_medications(note) ELSE <<>>)
           \o (IF self.enable_protocols THEN _check_protocols(note) ELSE <<>>))

\* a mutant of format_violations: nothing to report gives None
format_violations_none(violations) ==
    IF Len(violations) = 0
    THEN [kind |-> "None"]
    ELSE [kind |-> "str", text |-> "GUARDRAIL VIOLATIONS DETECTED",
          count |-> Len(violations),
          critical |-> SelectSeq(violations, IsCritical),
          warnings |-> SelectSeq(violations, IsWarning)]

\* format_violations returns a string, never None: the fixed line when the
\* list is empty, else the count, the critical entries and the warnings
format_violations(violations) ==
    IF Len(violations) = 0
    THEN [kind |-> "str", text |-> "No guardrail violations detected",
          count |-> 0, critical |-> <<>>, warnings |-> <<>>]
    ELSE [kind |-> "str", text |-> "GUARDRAIL VIOLATIONS DETECTED",
          count |-> Len(violations),
          critical |-> SelectSeq(violations, IsCritical),
          warnings |-> SelectSeq(violations, IsWarning)]

(***************************************************************************)
(* Bounds and inputs.                                                      *)
(***************************************************************************)
\* wipe() calls in one run
MaxWipes == 2

\* spans the external detector returns for one text
MaxSpans == 1

\* the concurrent callers of one GOATScribe, each making one invocation
Inv == {1, 2}

\* Python's None where the other values are strings
None == "None"

NoneRec == [kind |-> "None"]

\* "", " " and "Al ill"
Prompts ==
    { <<>>, <<" ">>, <<"A","l"," ","i","l","l">> }

\* audio argument: None or bytes
Audios == {None, "wav"}

PatientIds == {"anon-001"}

\* the patient_id argument of a library call: left out, or "pt-7"
Omitted == "omitted"

PatientArgs == {Omitted, "pt-7"}

\* what the speech-to-text model may return: " " and "Bo"
Transcripts ==
    { <<" ">>, <<"B","o">> }

\* what the completion service may return: "ok" (no violation), "ACLS" (a
\* warning only) and "HR: 260" (a critical violation)
Completions ==
    { <<"o","k">>,
      <<"A","C","L","S">>,
      <<"H","R",":"," ","2","6","0">> }

\* ScribeConfig: the fields the pipeline reads
ScribeConfig(enable_reasoning, enable_guardrails) ==
    [enable_reasoning        |-> enable_reasoning,
     enable_guardrails       |-> enable_guardrails,
     validate_vitals         |-> TRUE,
     validate_medications    |-> TRUE,
     validate_acls_protocols |-> TRUE,
     phi_language            |-> "en"]

Configs == { ScribeConfig(TRUE, TRUE), ScribeConfig(FALSE, FALSE) }

(***************************************************************************)
(* The external redactor (Presidio): the spans a detector may return for a *)
(* text, and the anonymizer's substitution of a placeholder for each span. *)
(***************************************************************************)
\* the maximal runs of non-space characters, as (entity_type, start, end)
\* with Python's offsets: 0-based start, exclusive end
CandidateSpans(text) ==
    { [entity_type |-> "PERSON", start |-> a - 1, end |-> b] :
        <<a, b>> \in
          { ab \in (DOMAIN text) \X (DOMAIN text) :
              /\ ab[1] <= ab[2]
              /\ \A k \in ab[1]..ab[2] : ~IsSpace(text[k])
              /\ (ab[1] = 1 \/ IsSpace(text[ab[1] - 1]))
              /\ (ab[2] = Len(text) \/ IsSpace(text[ab[2] + 1])) } }

\* the lists of at most MaxSpans distinct candidate spans, in any order
DetectorResults(text) ==
    UNION { { s \in [1..n -> CandidateSpans(text)] :
                \A j, k \in 1..n : j # k => s[j] # s[k] } : n \in 0..MaxSpans }

Placeholder(entity_type) == <<"<","P","E","R","S","O","N",">">>

\* AnonymizerEngine.anonymize(...).text: every span replaced, last span first
RECURSIVE Anonymized(_, _)
Anonymized(text, spans) ==
    IF spans = {} THEN text
    ELSE LET s == CHOOSE x \in spans : \A y \in spans : y.start <= x.start
         IN  Anonymized(SubSeq(text, 1, s.start) \o Placeholder(s.entity_type)
                          \o SubSeq(text, s.end + 1, Len(text)),
                        spans \ {s})

SpanSet(phi_results) == { phi_results[k] : k \in DOMAIN phi_results }

(***************************************************************************)
(* GOATScribe: request shaping and bundle assembly.                        *)
(***************************************************************************)
\* user_content of _generate_draft
DraftUserContent(cfg, prompt) ==
    IF cfg.enable_reasoning
    THEN <<"/","t","h","i","n","k","\n">> \o prompt
    ELSE prompt

\* critique_prompt of _critique_draft: the draft between the fixed rubric
\* and the fixed closing line
CritiqueUserContent(draft) ==
    <<"Clinical documentation review. Verify this ED note for: ... Draft:\n">>
    \o draft
    \o <<"\n\nProvide improved version with any corrections:">>

DraftRequest(cfg, prompt) ==
    [system      |-> "Emergency Medicine clinical documentation. ...",
     user        |-> DraftUserContent(cfg, prompt),
     temperature |-> "config.temperature"]

CritiqueRequest(draft) ==
    [system      |-> "Clinical documentation reviewer. ...",
     user        |-> CritiqueUserContent(draft),
     temperature |-> "0.0"]

\* a mutant of _to_fhir: the document comes before the patient
_to_fhir_document_first(note, patient_id) ==
    [resourceType |-> "Bundle",
     type         |-> "document",
     timestamp    |-> "utcnow",
     entry        |->
        << [resource |->
               [resourceType |-> "DocumentReference",
                status       |-> "current",
                content      |->
                   << [attachment |-> [contentType |-> "text/plain",
                                       data        |-> note]] >>]],
           [fullUrl  |-> <<"Patient/", patient_id>>,
            resource |-> [resourceType |-> "Patient", id |-> patient_id]] >>]

_to_fhir(note, patient_id) ==
    [resourceType |-> "Bundle",
     type         |-> "document",
     timestamp    |-> "utcnow",
     entry        |->
        << [fullUrl  |-> <<"Patient/", patient_id>>,
            resource |-> [resourceType |-> "Patient", id |-> patient_id]],
           [resource |->
               [resourceType |-> "DocumentReference",
                status       |-> "current",
                content      |->
                   << [attachment |-> [contentType |-> "text/plain",
                                       data        |-> note]] >>]] >>]

\* a mutant of Guardrails: the checker is built whatever enable_guardrails is
Guardrails_always(cfg) ==
    EDGuardrails(cfg.validate_vitals, cfg.validate_medications,
                 cfg.validate_acls_protocols)

\* self.guardrails, set once by __init__
Guardrails(cfg) ==
    IF cfg.enable_guardrails
    THEN EDGuardrails(cfg.validate_vitals, cfg.validate_medications,
                      cfg.validate_acls_protocols)
    ELSE NoneRec

(***************************************************************************)
(* State.                                                                  *)
(***************************************************************************)
VARIABLES
    config,        \* self.config
    client,        \* self.client: "OpenAI" or None
    _whisper,      \* self._whisper: "model" or None
    pc,            \* per invocation: where it stands in __call__
    frame,         \* per invocation: the arguments and locals of __call__
    calls,         \* per invocation: the stage calls it has issued, in order
    result,        \* per invocation: the returned dictionary, or None
    error,         \* per invocation: the exception raised, or None
    wipes,         \* wipe() calls so far
    wipe_raised,   \* whether a wipe() call has raised
    cli,           \* cli.main: its position, arguments, locals and exit code
    guard,         \* a direct call of EDGuardrails.validate_note
    app,           \* per request of the web UI: the state of generate_note
    upload         \* a call of FHIRExporter.upload_bundle

vars == <<config, client, _whisper, pc, frame, calls, result, error, wipes,
          wipe_raised, cli, guard, app, upload>>

\* everything but the invocations' own state and the two handles
others == <<config, wipes, wipe_raised, cli, guard, app, upload>>

\* the entry points that a specification does not run
NoCli == [pc |-> "off"]

NoGuard == [pc |-> "off"]

NoApp == [i \in Inv |-> [pc |-> "off"]]

NoUpload == [pc |-> "off"]

NewFrame ==
    [arg_prompt |-> <<>>, prompt |-> <<>>, audio |-> None,
     arg_patient_id |-> None, patient_id |-> None,
     transcript |-> <<>>, phi_results |-> <<>>,
     deid_prompt |-> <<>>, draft |-> <<>>, final_note |-> <<>>,
     guardrail_safe |-> TRUE, guardrail_violations |-> <<>>,
     guardrail_report |-> NoneRec]

\* GOATScribe.__init__
Init ==
    /\ config \in Configs
    /\ client = "OpenAI"
    /\ _whisper = None
    /\ pc = [i \in Inv |-> "idle"]
    /\ frame = [i \in Inv |-> NewFrame]
    /\ calls = [i \in Inv |-> <<>>]
    /\ result = [i \in Inv |-> NoneRec]
    /\ error = [i \in Inv |-> None]
    /\ wipes = 0
    /\ wipe_raised = FALSE
    /\ cli = NoCli
    /\ guard = NoGuard
    /\ app = NoApp
    /\ upload = NoUpload

Goto(i, label) == pc' = [pc EXCEPT ![i] = label]

Raise(i, exc) ==
    /\ pc' = [pc EXCEPT ![i] = "raised"]
    /\ error' = [error EXCEPT ![i] = exc]

Event(op, arg, ok) == [op |-> op, arg |-> arg, ok |-> ok]

Log(i, op, arg, ok) ==
    calls' = [calls EXCEPT ![i] = Append(@, Event(op, arg, ok))]

(***************************************************************************)
(* GOATScribe.__call__, one action per stage.                              *)
(***************************************************************************)
\* patient_id: str = "anon-001"
patient_id_default(patient_id) ==
    IF patient_id = Omitted THEN "anon-001" ELSE patient_id

\* a mutant of Enter: the audio is looked at before the emptiness check
Enter_audio_first(i, prompt, audio, patient_id) ==
    /\ pc[i] = "idle"
    /\ frame' = [frame EXCEPT ![i] =
                    [@ EXCEPT !.arg_prompt = prompt, !.prompt = prompt,
                              !.audio = audio,
                              !.arg_patient_id = patient_id,
                              !.patient_id = patient_id_default(patient_id)]]
    /\ IF audio # None
       THEN Goto(i, "transcribe") /\ UNCHANGED error
       ELSE IF IsBlank(prompt)
            THEN Raise(i, "ValueError")
            ELSE Goto(i, "analyze") /\ UNCHANGED error
    /\ UNCHANGED <<client, _whisper, calls, result>>

\* entry with the given arguments: the emptiness check, then the choice of
\* the input channel
Enter(i, prompt, audio, patient_id) ==
    /\ pc[i] = "idle"
    /\ frame' = [frame EXCEPT ![i] =
                    [@ EXCEPT !.arg_prompt = prompt, !.prompt = prompt,
                              !.audio = audio,
                              !.arg_patient_id = patient_id,
                              !.patient_id = patient_id_default(patient_id)]]
    /\ IF IsBlank(prompt)
       THEN Raise(i, "ValueError")
       ELSE /\ Goto(i, IF audio # None THEN "transcribe" ELSE "analyze")
            /\ UNCHANGED error
    /\ UNCHANGED <<client, _whisper, calls, result>>

\* a caller of the library invokes scribe(prompt, audio, patient_id)
Call(i) ==
    /\ \E prompt \in Prompts, audio \in Audios, patient_id \in PatientIds :
          Enter(i, prompt, audio, patient_id)
    /\ UNCHANGED others

\* a caller of the library invokes scribe(prompt, audio), leaving the
\* patient_id out, or scribe(prompt, audio, "pt-7")
CallOptional(i) ==
    /\ \E prompt \in Prompts, audio \in Audios, patient_id \in PatientArgs :
          Enter(i, prompt, audio, patient_id)
    /\ UNCHANGED others

\* _transcribe_audio: `if self._whisper is None`
TranscribeCheck(i) ==
    /\ pc[i] = "transcribe"
    /\ Goto(i, IF _whisper = None THEN "load_model" ELSE "do_transcribe")
    /\ UNCHANGED <<client, _whisper, frame, calls, result, error, others>>

\* _transcribe_audio: self._whisper = whisper.load_model(...)
LoadModel(i) ==
    /\ pc[i] = "load_model"
    /\ \/ /\ _whisper' = "model"
          /\ Log(i, "load_model", <<>>, TRUE)
          /\ Goto(i, "do_transcribe")
          /\ UNCHANGED error
       \/ /\ Log(i, "load_model", <<>>, FALSE)
          /\ Raise(i, "WhisperError")
          /\ UNCHANGED _whisper
    /\ UNCHANGED <<client, frame, result, others>>

\* _transcribe_audio: self._whisper.transcribe(audio)["text"]
DoTranscribe(i) ==
    /\ pc[i] = "do_transcribe"
    /\ \/ /\ _whisper = None
          /\ Raise(i, "AttributeError")
          /\ UNCHANGED <<frame, calls>>
       \/ /\ _whisper # None
          /\ \E text \in Transcripts :
                frame' = [frame EXCEPT ![i] =
                             [@ EXCEPT !.transcript = text, !.prompt = text]]
          /\ Log(i, "transcribe", <<>>, TRUE)
          /\ Goto(i, "analyze")
          /\ UNCHANGED error
       \/ /\ _whisper # None
          /\ Log(i, "transcribe", <<>>, FALSE)
          /\ Raise(i, "WhisperError")
          /\ UNCHANGED frame
    /\ UNCHANGED <<client, _whisper, result, others>>

\* self.analyzer.analyze(text=prompt, language=...)
Analyze(i) ==
    /\ pc[i] = "analyze"
    /\ \/ /\ \E spans \in DetectorResults(frame[i].prompt) :
                frame' = [frame EXCEPT ![i].phi_results = spans]
          /\ Log(i, "analyze", frame[i].prompt, TRUE)
          /\ Goto(i, "anonymize")
          /\ UNCHANGED error
       \/ /\ Log(i, "analyze", frame[i].prompt, FALSE)
          /\ Raise(i, "AnalyzerError")
          /\ UNCHANGED frame
    /\ UNCHANGED <<client, _whisper, result, others>>

\* a mutant of Anonymize: a failed anonymizer lets the text through
Anonymize_fallthrough(i) ==
    /\ pc[i] = "anonymize"
    /\ \/ /\ frame' = [frame EXCEPT ![i].deid_prompt =
                          Anonymized(frame[i].prompt,
                                     SpanSet(frame[i].phi_results))]
          /\ Log(i, "anonymize", frame[i].prompt, TRUE)
       \/ /\ frame' = [frame EXCEPT ![i].deid_prompt = frame[i].prompt]
          /\ Log(i, "anonymize", frame[i].prompt, FALSE)
    /\ Goto(i, "draft")
    /\ UNCHANGED <<client, _whisper, result, error, others>>

\* self.anonymizer.anonymize(text=prompt, analyzer_results=phi_results).text
Anonymize(i) ==
    /\ pc[i] = "anonymize"
    /\ \/ /\ frame' = [frame EXCEPT ![i].deid_prompt =
                          Anonymized(frame[i].prompt,
                                     SpanSet(frame[i].phi_results))]
          /\ Log(i, "anonymize", frame[i].prompt, TRUE)
          /\ Goto(i, "draft")
          /\ UNCHANGED error
       \/ /\ Log(i, "anonymize", frame[i].prompt, FALSE)
          /\ Raise(i, "AnonymizerError")
          /\ UNCHANGED frame
    /\ UNCHANGED <<client, _whisper, result, others>>

\* a mutant of DraftInput: the text before anonymization
DraftInput_raw(f) == f.prompt

\* the text _generate_draft is called with
DraftInput(f) == f.deid_prompt

\* a mutant of GenerateDraft: a released client is created again
GenerateDraft_reconnect(i) ==
    /\ pc[i] = "draft"
    /\ client' = "OpenAI"
    /\ \E text \in Completions :
          frame' = [frame EXCEPT ![i].draft = text]
    /\ Log(i, "draft", DraftRequest(config, DraftInput(frame[i])), TRUE)
    /\ Goto(i, "critique")
    /\ UNCHANGED <<_whisper, result, error, others>>

\* draft = self._generate_draft(deid_prompt)
GenerateDraft(i) ==
    /\ pc[i] = "draft"
    /\ \/ /\ client = None
          /\ Raise(i, "AttributeError")
          /\ UNCHANGED <<frame, calls>>
       \/ /\ client # None
          /\ \E text \in Completions :
                frame' = [frame EXCEPT ![i].draft = text]
          /\ Log(i, "draft", DraftRequest(config, DraftInput(frame[i])), TRUE)
          /\ Goto(i, "critique")
          /\ UNCHANGED error
       \/ /\ client # None
          /\ Log(i, "draft", DraftRequest(config, DraftInput(frame[i])), FALSE)
          /\ Raise(i, "OpenAIError")
          /\ UNCHANGED frame
    /\ UNCHANGED <<client, _whisper, result, others>>

\* a mutant of CritiqueDraft: a failed critique falls back to the draft
CritiqueDraft_fallback(i) ==
    /\ pc[i] = "critique"
    /\ \/ /\ client = None
          /\ Raise(i, "AttributeError")
          /\ UNCHANGED <<frame, calls>>
       \/ /\ client # None
          /\ \E text \in Completions :
                frame' = [frame EXCEPT ![i].final_note = text]
          /\ Log(i, "critique", CritiqueRequest(frame[i].draft), TRUE)
          /\ Goto(i, "guardrails")
          /\ UNCHANGED error
       \/ /\ client # None
          /\ frame' = [frame EXCEPT ![i].final_note = frame[i].draft]
          /\ Log(i, "critique", CritiqueRequest(frame[i].draft), FALSE)
          /\ Goto(i, "guardrails")
          /\ UNCHANGED error
    /\ UNCHANGED <<client, _whisper, result, others>>

\* final_note = self._critique_draft(draft)
CritiqueDraft(i) ==
    /\ pc[i] = "critique"
    /\ \/ /\ client = None
          /\ Raise(i, "AttributeError")
          /\ UNCHANGED <<frame, calls>>
       \/ /\ client # None
          /\ \E text \in Completions :
                frame' = [frame EXCEPT ![i].final_note = text]
          /\ Log(i, "critique", CritiqueRequest(frame[i].draft), TRUE)
          /\ Goto(i, "guardrails")
          /\ UNCHANGED error
       \/ /\ client # None
          /\ Log(i, "critique", CritiqueRequest(frame[i].draft), FALSE)
          /\ Raise(i, "OpenAIError")
          /\ UNCHANGED frame
    /\ UNCHANGED <<client, _whisper, result, others>>

\* the locals after `guardrail_safe, guardrail_violations = ...validate_note(...)`
\* and `guardrail_report = ...format_violations(guardrail_violations)`
Validated(f, r) ==
    [f EXCEPT !.guardrail_safe = r.is_safe,
              !.guardrail_violations = r.violations,
              !.guardrail_report = format_violations(r.violations)]

\* self.guardrails.validate_note(final_note): validate_note is a function of
\* the flags and the note alone, so its value for each configuration and each
\* note the critique can return is computed once
Validation ==
    [cfg \in Configs |->
        [note \in Completions |->
            IF Guardrails(cfg) = NoneRec
            THEN NoneRec
            ELSE IF validate_note_raises(Guardrails(cfg), note)
            THEN [kind |-> "ValueError"]
            ELSE validate_note(Guardrails(cfg), note)]]

\* a mutant of Validate: a note that is not safe is refused
Validate_gating(i) ==
    /\ pc[i] = "guardrails"
    /\ IF Guardrails(config) # NoneRec
       THEN /\ frame' = [frame EXCEPT ![i] =
                   Validated(@, Validation[config][frame[i].final_note])]
            /\ Log(i, "validate_note", frame[i].final_note, TRUE)
       ELSE UNCHANGED <<frame, calls>>
    /\ IF frame'[i].guardrail_safe
       THEN Goto(i, "to_fhir") /\ UNCHANGED error
       ELSE Raise(i, "GuardrailError")
    /\ UNCHANGED <<client, _whisper, result, others>>

\* `if self.guardrails:` validate_note and format_violations
Validate(i) ==
    /\ pc[i] = "guardrails"
    /\ IF Guardrails(config) = NoneRec
       THEN Goto(i, "to_fhir") /\ UNCHANGED <<frame, calls, error>>
       ELSE IF Validation[config][frame[i].final_note] = [kind |-> "ValueError"]
       THEN /\ Log(i, "validate_note", frame[i].final_note, FALSE)
            /\ Raise(i, "ValueError")
            /\ UNCHANGED frame
       ELSE /\ frame' = [frame EXCEPT ![i] =
                   Validated(@, Validation[config][frame[i].final_note])]
            /\ Log(i, "validate_note", frame[i].final_note, TRUE)
            /\ Goto(i, "to_fhir")
            /\ UNCHANGED error
    /\ UNCHANGED <<client, _whisper, result, others>>

\* a mutant of ResultDict: the offsets of a span are exchanged
ResultDict_swapped(f, fhir_bundle) ==
    [kind                 |-> "dict",
     note                 |-> f.final_note,
     phi_removed          |-> Len(f.phi_results),
     redaction_map        |->
        [k \in DOMAIN f.phi_results |->
            <<f.phi_results[k].entity_type, f.phi_results[k].end,
              f.phi_results[k].start>>],
     fhir_bundle          |-> fhir_bundle,
     guardrail_safe       |-> f.guardrail_safe,
     guardrail_violations |-> Len(f.guardrail_violations),
     guardrail_report     |-> f.guardrail_report]

\* the dictionary __call__ returns
ResultDict(f, fhir_bundle) ==
    [kind                 |-> "dict",
     note                 |-> f.final_note,
     phi_removed          |-> Len(f.phi_results),
     redaction_map        |->
        [k \in DOMAIN f.phi_results |->
            <<f.phi_results[k].entity_type, f.phi_results[k].start,
              f.phi_results[k].end>>],
     fhir_bundle          |-> fhir_bundle,
     guardrail_safe       |-> f.guardrail_safe,
     guardrail_violations |-> Len(f.guardrail_violations),
     guardrail_report     |-> f.guardrail_report]

\* a mutant of Return: the bundle and the result are made from the draft
Return_draft(i) ==
    /\ pc[i] = "to_fhir"
    /\ result' = [result EXCEPT ![i] =
          ResultDict([frame[i] EXCEPT !.final_note = frame[i].draft],
                     _to_fhir(frame[i].draft, frame[i].patient_id))]
    /\ Log(i, "_to_fhir", frame[i].draft, TRUE)
    /\ Goto(i, "returned")
    /\ UNCHANGED <<client, _whisper, frame, error, others>>

\* fhir_bundle = self._to_fhir(final_note, patient_id); return {...}
Return(i) ==
    /\ pc[i] = "to_fhir"
    /\ result' = [result EXCEPT ![i] =
          ResultDict(frame[i],
                     _to_fhir(frame[i].final_note, frame[i].patient_id))]
    /\ Log(i, "_to_fhir", frame[i].final_note, TRUE)
    /\ Goto(i, "returned")
    /\ UNCHANGED <<client, _whisper, frame, error, others>>

(***************************************************************************)
(* GOATScribe.wipe: the two handles are set to None; the CUDA cache and    *)
(* the garbage collector hold no state of the model.                       *)
(***************************************************************************)
\* a mutant of wipe: the audio model is not released
wipe_keeps_whisper ==
    /\ client' = None
    /\ wipes' = wipes + 1
    /\ UNCHANGED <<_whisper, wipe_raised>>

wipe ==
    /\ client' = None
    /\ _whisper' = None
    /\ wipes' = wipes + 1
    /\ UNCHANGED wipe_raised

\* a caller of the library invokes scribe.wipe()
Wipe ==
    /\ wipes < MaxWipes
    /\ wipe
    /\ UNCHANGED <<config, pc, frame, calls, result, error, cli, guard, app,
                   upload>>

\* the stages of an invocation that has been entered
Stage(i) ==
    \/ TranscribeCheck(i)
    \/ LoadModel(i)
    \/ DoTranscribe(i)
    \/ Analyze(i)
    \/ Anonymize(i)
    \/ GenerateDraft(i)
    \/ CritiqueDraft(i)
    \/ Validate(i)
    \/ Return(i)

Next ==
    \/ \E i \in Inv : Call(i)
    \/ \E i \in Inv : Stage(i)
    \/ Wipe

Spec == Init /\ [][Next]_vars

\* one caller, one invocation, with or without a patient identifier
NextSolo ==
    \/ CallOptional(1)
    \/ Stage(1)

SpecSolo == Init /\ [][NextSolo]_vars

(***************************************************************************)
(* cli.main: the command-line entry point.  It constructs one GOATScribe   *)
(* and makes one invocation (invocation 1, without audio).                 *)
(***************************************************************************)
\* str.strip()
Strip(t) ==
    IF IsBlank(t) THEN <<>>
    ELSE SubSeq(t, CHOOSE a \in DOMAIN t :
                      ~IsSpace(t[a]) /\ \A k \in 1..(a - 1) : IsSpace(t[k]),
                   CHOOSE b \in DOMAIN t :
                      ~IsSpace(t[b]) /\ \A k \in (b + 1)..Len(t) : IsSpace(t[k]))

Str(text) == [kind |-> "str", text |-> text]

\* `not x` for x a string or None
Falsy(x) == x.kind = "None" \/ Len(x.text) = 0

\* the positional argument: absent, or "Al ill"
CliTexts == { NoneRec, Str(<<"A","l"," ","i","l","l">>) }

\* standard input: a terminal, or a pipe holding " " or "Al ill\n"
CliStdins ==
    { [isatty |-> TRUE, text |-> <<>>],
      [isatty |-> FALSE, text |-> <<" ">>],
      [isatty |-> FALSE, text |-> <<"A","l"," ","i","l","l","\n">>] }

\* parser.parse_args() and the process's standard input
\* GOATScribe() takes ScribeConfig.from_env(), which leaves enable_reasoning
\* and enable_guardrails at their default, True
InitCLI ==
    /\ config \in { ScribeConfig(TRUE, TRUE) }
    /\ client = None
    /\ _whisper = None
    /\ pc = [i \in Inv |-> "idle"]
    /\ frame = [i \in Inv |-> NewFrame]
    /\ calls = [i \in Inv |-> <<>>]
    /\ result = [i \in Inv |-> NoneRec]
    /\ error = [i \in Inv |-> None]
    /\ wipes = 0
    /\ wipe_raised = FALSE
    /\ guard = NoGuard
    /\ app = NoApp
    /\ upload = NoUpload
    /\ \E text \in CliTexts, stdin \in CliStdins, export \in BOOLEAN :
          cli = [pc              |-> "parse",
                 clinical_text   |-> text,
                 patient_id      |-> "anon-001",
                 export_fhir     |-> export,
                 stdin           |-> stdin,
                 scribe          |-> None,
                 stdout          |-> <<>>,
                 exit_code       |-> None]

pipeline == <<pc, frame, calls, result, error>>

\* `if not args.clinical_text:` help and exit code 1 on a terminal, else the
\* stripped standard input
CliParse ==
    /\ cli.pc = "parse"
    /\ cli' = IF Falsy(cli.clinical_text)
              THEN IF cli.stdin.isatty
                   THEN [cli EXCEPT !.pc = "exit", !.exit_code = "1",
                                    !.stdout = Append(@, "help")]
                   ELSE [cli EXCEPT !.pc = "construct",
                                    !.clinical_text = Str(Strip(cli.stdin.text))]
              ELSE [cli EXCEPT !.pc = "construct"]
    /\ UNCHANGED <<config, client, _whisper, pipeline, wipes, wipe_raised,
                   guard, app, upload>>

\* scribe = GOATScribe(): raises when the API key is not configured
CliConstruct ==
    /\ cli.pc = "construct"
    /\ \/ /\ client' = "OpenAI"
          /\ cli' = [cli EXCEPT !.pc = "call", !.scribe = "GOATScribe"]
       \/ /\ cli' = [cli EXCEPT !.pc = "except"]
          /\ UNCHANGED client
    /\ UNCHANGED <<config, _whisper, pipeline, wipes, wipe_raised, guard, app,
                   upload>>

\* result = scribe(args.clinical_text, patient_id=args.patient_id): entry
CliCall ==
    /\ cli.pc = "call"
    /\ Enter(1, cli.clinical_text.text, None, cli.patient_id)
    /\ cli' = [cli EXCEPT !.pc = "in_call"]
    /\ UNCHANGED <<config, wipes, wipe_raised, guard, app, upload>>

\* the invocation raised: control passes to the except clause
CliCallRaised ==
    /\ cli.pc = "in_call"
    /\ pc[1] = "raised"
    /\ cli' = [cli EXCEPT !.pc = "except"]
    /\ UNCHANGED <<config, client, _whisper, pipeline, wipes, wipe_raised,
                   guard, app, upload>>

\* the invocation returned: the note, the statistics and the guardrail line
CliPrint ==
    /\ cli.pc = "in_call"
    /\ pc[1] = "returned"
    /\ cli' = [cli EXCEPT
                 !.pc = IF cli.export_fhir THEN "export" ELSE "wipe",
                 !.stdout = @ \o <<"note", "stats",
                                   IF result[1].guardrail_safe
                                   THEN "All safety checks passed"
                                   ELSE "guardrail violation(s)">>]
    /\ UNCHANGED <<config, client, _whisper, pipeline, wipes, wipe_raised,
                   guard, app, upload>>

\* upload_bundle's first check: `not bundle or resourceType != "Bundle"`
InvalidBundle(bundle) == bundle.kind = "None" \/ bundle.resourceType # "Bundle"

\* what `gcloud auth print-access-token` may do: print a token, end with a
\* non-zero return code, or not be installed
Tokens == { "token", "returncode != 0", "FileNotFoundError" }

\* what requests.post may do: raise, or return a response with a status code
\* and a body that is JSON or is not
Responses ==
    { [kind |-> "ConnectionError"], [kind |-> "Timeout"] } \cup
    { [kind |-> "Response", status_code |-> s, is_json |-> j] :
        s \in { 200, 201, 300, 400, 401, 404, 500, 503 }, j \in BOOLEAN }

\* a mutant of upload_bundle: the bundle is not looked at
upload_bundle_unchecked(bundle, token, response) ==
    IF token # "token"
    THEN [requests |-> <<Event("get_token", token, FALSE)>>,
          raised   |-> "RuntimeError", ret |-> NoneRec]
    ELSE [requests |-> <<Event("get_token", token, TRUE),
                         Event("POST", response, TRUE)>>,
          raised   |-> None, ret |-> [kind |-> "dict"]]

\* FHIRExporter.upload_bundle: the requests it makes, in order and each with
\* its outcome, the exception it raises or None, and the value it returns:
\* the bundle check, get_token, requests.post, raise_for_status (an HTTPError
\* for a status from 400 to 599), response.json()
upload_bundle(bundle, token, response) ==
    IF InvalidBundle(bundle)
    THEN [requests |-> <<>>, raised |-> "ValueError", ret |-> NoneRec]
    ELSE IF token # "token"
    THEN [requests |-> <<Event("get_token", token, FALSE)>>,
          raised   |-> IF token = "returncode != 0" THEN "RuntimeError"
                       ELSE token,
          ret      |-> NoneRec]
    ELSE IF response.kind # "Response"
    THEN [requests |-> <<Event("get_token", token, TRUE),
                         Event("POST", response, FALSE)>>,
          raised   |-> response.kind, ret |-> NoneRec]
    ELSE [requests |-> <<Event("get_token", token, TRUE),
                         Event("POST", response, TRUE)>>,
          raised   |-> IF response.status_code >= 400 /\ response.status_code < 600
                       THEN "HTTPError"
                       ELSE IF ~response.is_json THEN "JSONDecodeError"
                       ELSE None,
          ret      |-> IF response.status_code < 400 /\ response.is_json
                       THEN [kind |-> "dict"] ELSE NoneRec]

\* exporter.upload_bundle(result['fhir_bundle']) and the line printed after it
CliExport ==
    /\ cli.pc = "export"
    /\ \E token \in Tokens, response \in Responses :
          /\ upload' = [pc |-> "done",
                        bundle |-> [kind |-> "dict"] @@ result[1].fhir_bundle]
                       @@ upload_bundle([kind |-> "dict"] @@ result[1].fhir_bundle,
                                        token, response)
          /\ cli' = IF upload'.raised # None
                    THEN [cli EXCEPT !.pc = "except"]
                    ELSE [cli EXCEPT !.pc = "wipe",
                                     !.stdout = Append(@, "Uploaded to FHIR store")]
    /\ UNCHANGED <<config, client, _whisper, pipeline, wipes, wipe_raised,
                   guard, app>>

\* scribe.wipe(); return 0
CliWipe ==
    /\ cli.pc = "wipe"
    /\ wipe
    /\ cli' = [cli EXCEPT !.pc = "exit", !.exit_code = "0"]
    /\ UNCHANGED <<config, pipeline, guard, app, upload>>

\* except Exception as e: print the error; return 1
CliExcept ==
    /\ cli.pc = "except"
    /\ cli' = [cli EXCEPT !.pc = "exit", !.exit_code = "1"]
    /\ UNCHANGED <<config, client, _whisper, pipeline, wipes, wipe_raised,
                   guard, app, upload>>

\* the stages of invocation 1: main passes no audio, so the transcription
\* steps are not among them
CliStage ==
    \/ Analyze(1)
    \/ Anonymize(1)
    \/ GenerateDraft(1)
    \/ CritiqueDraft(1)
    \/ Validate(1)
    \/ Return(1)

NextCLI ==
    \/ CliParse
    \/ CliConstruct
    \/ CliCall
    \/ CliStage
    \/ CliCallRaised
    \/ CliPrint
    \/ CliExport
    \/ CliWipe
    \/ CliExcept

SpecCLI == InitCLI /\ [][NextCLI]_vars

(***************************************************************************)
(* FHIRExporter.upload_bundle called by the command line and called        *)
(* directly with an argument of the caller's choice.                       *)
(***************************************************************************)
\* None, a dict without resourceType ({} included), a Patient resource, and
\* the bundles _to_fhir makes
UploadBundles ==
    { NoneRec,
      [kind |-> "dict", resourceType |-> None],
      [kind |-> "dict", resourceType |-> "Patient", id |-> "pt-7"] } \cup
    { [kind |-> "dict"] @@ _to_fhir(note, patient_id) :
        note \in Completions, patient_id \in PatientIds \cup {"pt-7"} }

InitUpload ==
    /\ config \in { ScribeConfig(TRUE, TRUE) }
    /\ client = None
    /\ _whisper = None
    /\ pc = [i \in Inv |-> "idle"]
    /\ frame = [i \in Inv |-> NewFrame]
    /\ calls = [i \in Inv |-> <<>>]
    /\ result = [i \in Inv |-> NoneRec]
    /\ error = [i \in Inv |-> None]
    /\ wipes = 0
    /\ wipe_raised = FALSE
    /\ cli = NoCli
    /\ guard = NoGuard
    /\ app = NoApp
    /\ upload \in { [pc |-> "start", bundle |-> b] : b \in UploadBundles }

\* exporter.upload_bundle(bundle), called directly
Upload ==
    /\ upload.pc = "start"
    /\ \E token \in Tokens, response \in Responses :
          upload' = [pc |-> "done", bundle |-> upload.bundle]
                    @@ upload_bundle(upload.bundle, token, response)
    /\ UNCHANGED <<config, client, _whisper, pipeline, wipes, wipe_raised,
                   cli, guard, app>>

NextExport ==
    \/ NextCLI
    \/ Upload

InitExport ==
    \/ InitCLI
    \/ InitUpload

SpecExport == InitExport /\ [][NextExport]_vars

(***************************************************************************)
(* app.py: the web UI.  One GOATScribe is constructed when the module is   *)
(* loaded; every request runs generate_note on it, and requests of         *)
(* different users may overlap.  No statement of app.py calls wipe().      *)
(***************************************************************************)
\* scribe = GOATScribe() at module level; no request has arrived
\* GOATScribe() takes ScribeConfig.from_env(), which leaves enable_reasoning
\* and enable_guardrails at their default, True
InitApp ==
    /\ config \in { ScribeConfig(TRUE, TRUE) }
    /\ client = "OpenAI"
    /\ _whisper = None
    /\ pc = [i \in Inv |-> "idle"]
    /\ frame = [i \in Inv |-> NewFrame]
    /\ calls = [i \in Inv |-> <<>>]
    /\ result = [i \in Inv |-> NoneRec]
    /\ error = [i \in Inv |-> None]
    /\ wipes = 0
    /\ wipe_raised = FALSE
    /\ cli = NoCli
    /\ guard = NoGuard
    /\ app = [i \in Inv |-> [pc |-> "idle", output |-> NoneRec]]
    /\ upload = NoUpload

\* result = scribe(clinical_text, patient_id=patient_id): entry, with the
\* contents of the two text boxes
AppCall(i) ==
    /\ app[i].pc = "idle"
    /\ \E clinical_text \in Prompts, patient_id \in PatientIds :
          Enter(i, clinical_text, None, patient_id)
    /\ app' = [app EXCEPT ![i].pc = "in_call"]
    /\ UNCHANGED <<config, wipes, wipe_raised, cli, guard, upload>>

\* the stages of the invocation of request i: generate_note passes no audio
AppStage(i) ==
    \/ Analyze(i)
    \/ Anonymize(i)
    \/ GenerateDraft(i)
    \/ CritiqueDraft(i)
    \/ Validate(i)
    \/ Return(i)

\* the status message of a returned invocation
StatusMessage(r) ==
    [generated   |-> Len(r.note),
     phi_removed |-> r.phi_removed,
     safe        |-> r.guardrail_safe,
     report      |-> IF r.guardrail_safe THEN NoneRec ELSE r.guardrail_report]

\* return note, status_msg
AppReturn(i) ==
    /\ app[i].pc = "in_call"
    /\ pc[i] = "returned"
    /\ app' = [app EXCEPT ![i] =
                  [pc |-> "done",
                   output |-> [kind |-> "note", note |-> result[i].note,
                               status |-> StatusMessage(result[i])]]]
    /\ UNCHANGED <<config, client, _whisper, pipeline, wipes, wipe_raised, cli,
                   guard, upload>>

\* except Exception as e: return "", the error message
AppExcept(i) ==
    /\ app[i].pc = "in_call"
    /\ pc[i] = "raised"
    /\ app' = [app EXCEPT ![i] =
                  [pc |-> "done",
                   output |-> [kind |-> "error", note |-> <<>>,
                               status |-> error[i]]]]
    /\ UNCHANGED <<config, client, _whisper, pipeline, wipes, wipe_raised, cli,
                   guard, upload>>

NextApp ==
    \/ \E i \in Inv : AppCall(i)
    \/ \E i \in Inv : AppStage(i)
    \/ \E i \in Inv : AppReturn(i)
    \/ \E i \in Inv : AppExcept(i)

SpecApp == InitApp /\ [][NextApp]_vars

(***************************************************************************)
(* EDGuardrails.validate_note called directly, for every note built from   *)
(* at most MaxMentions fragments and every setting of the three flags.     *)
(***************************************************************************)
MaxMentions == 2

Fragments ==
    { <<"H","R",":"," ","2","6","0">>,
      <<"H","R",":"," ","9","5">>,
      <<"B","P"," ","3","0","0","/","9","0">>,
      <<"T","e","m","p"," ","9","8",".","6">>,
      <<"T","e","m","p","e","r","a","t","u","r","e",":"," ","1","1","0">>,
      <<"R","R"," ","8","0">>,
      <<"m","o","r","p","h","i","n","e"," ","2","0","m","g">>,
      <<"f","e","n","t","a","n","y","l"," ","2","5","0","m","c","g">>,
      <<"A","C","L","S"," ","p","r","o","t","o","c","o","l"," ",
        "i","n","i","t","i","a","t","e","d">>,
      <<"a","c","l","s","s">> }

JoinNote(r, f) == IF Len(r) = 0 THEN f ELSE r \o <<" ">> \o f

Extended(notes) == notes \cup { JoinNote(r, f) : r \in notes, f \in Fragments }

RECURSIVE NotesOf(_)
NotesOf(n) == IF n = 0 THEN { <<>> } ELSE Extended(NotesOf(n - 1))

GuardNotes == NotesOf(MaxMentions)

InitGuard ==
    /\ config \in { ScribeConfig(TRUE, TRUE) }
    /\ client = None
    /\ _whisper = None
    /\ pc = [i \in Inv |-> "idle"]
    /\ frame = [i \in Inv |-> NewFrame]
    /\ calls = [i \in Inv |-> <<>>]
    /\ result = [i \in Inv |-> NoneRec]
    /\ error = [i \in Inv |-> None]
    /\ wipes = 0
    /\ wipe_raised = FALSE
    /\ cli = NoCli
    /\ app = NoApp
    /\ upload = NoUpload
    /\ \E v, m, p \in BOOLEAN, note \in GuardNotes :
          guard = [pc |-> "start", self |-> EDGuardrails(v, m, p),
                   note |-> note, ret |-> NoneRec]

\* is_safe, violations = guardrails.validate_note(note)
GuardValidate ==
    /\ guard.pc = "start"
    /\ guard' = IF validate_note_raises(guard.self, guard.note)
                 THEN [guard EXCEPT !.pc = "raised"]
                 ELSE [guard EXCEPT !.pc = "done",
                                    !.ret = validate_note(guard.self, guard.note)]
    /\ UNCHANGED <<config, client, _whisper, pipeline, wipes, wipe_raised, cli,
                   app, upload>>

NextGuard == GuardValidate

SpecGuard == InitGuard /\ [][NextGuard]_vars

(***************************************************************************)
(* EDGuardrails.validate_note called on a note that holds one labelled     *)
(* mention: a vital sign with a value, a medication with a dose or a       *)
(* protocol name in a context.  The mention is kept beside the note, so    *)
(* that a property can say what the validation of the note has to find.    *)
(***************************************************************************)
\* str(n) for n >= 0
RECURSIVE DigitsOf(_)
DigitsOf(n) ==
    IF n < 10
    THEN <<(<<"0","1","2","3","4","5","6","7","8","9">>)[n + 1]>>
    ELSE DigitsOf(n \div 10) \o DigitsOf(n % 10)

\* a value written as an integer, and one written with one decimal; tenths
\* is ten times the value
Whole(n) == [text |-> DigitsOf(n), tenths |-> 10 * n]

Tenths(n) ==
    [text |-> DigitsOf(n \div 10) \o <<".">> \o DigitsOf(n % 10), tenths |-> n]

\* the labels a note uses for the vitals of VITAL_RANGES
VitalLabels ==
    { [vital |-> "heart_rate", label |-> <<"H","R">>],
      [vital |-> "heart_rate", label |-> <<"h","r">>],
      [vital |-> "heart_rate", label |-> <<"H","e","a","r","t"," ","R","a","t","e">>],
      [vital |-> "heart_rate", label |-> <<"p","u","l","s","e">>],
      [vital |-> "blood_pressure_systolic", label |-> <<"B","P">>],
      [vital |-> "blood_pressure_diastolic", label |-> <<"B","P">>],
      [vital |-> "respiratory_rate", label |-> <<"R","R">>],
      [vital |-> "temperature", label |-> <<"T","e","m","p">>],
      [vital |-> "temperature", label |-> <<"t","e","m","p","e","r","a","t","u","r","e">>],
      [vital |-> "spo2", label |-> <<"S","p","O","2">>],
      [vital |-> "gcs", label |-> <<"G","C","S">>] }

\* the values tried for a vital: around both ends of its range, and for the
\* heart rate the values 95 and 260 as well; the temperature has a decimal
VitalValues(vital) ==
    IF vital = "temperature"
    THEN { Tenths(899), Whole(90), Tenths(986), Tenths(1080), Tenths(1081) }
    ELSE { Whole(v) : v \in { VITAL_RANGES[vital][1] - 1, VITAL_RANGES[vital][1],
                              VITAL_RANGES[vital][2], VITAL_RANGES[vital][2] + 1 }
                          \cup (IF vital = "heart_rate" THEN {0, 95, 260} ELSE {}) }

\* what may follow a heart-rate mention: nothing, a second mention out of
\* range ("; HR: 260") or a second mention in range ("; pulse 95")
HeartRateTails ==
    { [text |-> <<>>, out_of_range |-> 0],
      [text |-> <<";"," ","H","R",":"," ","2","6","0">>, out_of_range |-> 1],
      [text |-> <<";"," ","p","u","l","s","e"," ","9","5">>, out_of_range |-> 0] }

VitalMentions ==
    { [kind |-> "vital", vital |-> l.vital, label |-> l.label, sep |-> s,
       value |-> v, tail |-> t] :
        l \in VitalLabels, s \in { <<":"," ">>, <<" ">> },
        v \in UNION { VitalValues(x.vital) : x \in VitalLabels },
        t \in HeartRateTails }

\* a blood pressure is written systolic/diastolic; the other value is 120 or 80
VitalText(m) ==
    m.label \o m.sep \o
    (CASE m.vital = "blood_pressure_systolic" ->
             m.value.text \o <<"/","8","0">>
       [] m.vital = "blood_pressure_diastolic" ->
             <<"1","2","0","/">> \o m.value.text
       [] OTHER -> m.value.text)
    \o m.tail.text

\* the mentions that are well formed: the value is one of those of the vital,
\* and only a heart-rate mention has a tail
WellFormed(m) ==
    /\ m.value \in VitalValues(m.vital)
    /\ m.vital # "heart_rate" => m.tail.out_of_range = 0 /\ m.tail.text = <<>>

\* the unit the limit table states for a medication: "mg unless specified",
\* and the entry of fentanyl specifies mcg
TableUnit(med) ==
    IF med.rule = "medication_fentanyl_dose" THEN <<"m","c","g">> ELSE <<"m","g">>

\* every medication of the table with a dose at its limit, a tenth above it,
\* 20 or 250, in mg, in mcg or without a unit
MedicationMentions ==
    { [kind |-> "med", med |-> MEDICATION_LIMITS[k], dose |-> d, unit |-> u] :
        k \in DOMAIN MEDICATION_LIMITS,
        d \in { Whole(20), Whole(250) }
              \cup UNION { { Tenths((10 * x.max_dose.num) \div Pow10(x.max_dose.scale)),
                             Tenths((10 * x.max_dose.num) \div Pow10(x.max_dose.scale) + 1) } :
                           x \in { MEDICATION_LIMITS[j] : j \in DOMAIN MEDICATION_LIMITS } },
        u \in { <<"m","g">>, <<"m","c","g">>, <<>> } }

MedicationText(m) == m.med.name \o <<" ">> \o m.dose.text \o m.unit

\* str.upper() of a text
UpperText(t) ==
    [k \in DOMAIN t |->
        IF \E j \in DOMAIN LowerChars : LowerChars[j] = t[k]
        THEN UpperChars[CHOOSE j \in DOMAIN LowerChars : LowerChars[j] = t[k]]
        ELSE t[k]]

\* a protocol name as the table writes it, in lower case or in upper case,
\* with a character or nothing on each side, and possibly a second time as a
\* word of its own; whole tells whether some occurrence is a whole word
ProtocolMentions ==
    { [kind |-> "protocol", protocol |-> CRITICAL_PROTOCOLS[k],
       written |-> w, before |-> b, after |-> a, again |-> g,
       whole |-> g \/ (b \in { <<>>, <<"(">> } /\ a \in { <<>>, <<".">> })] :
        k \in DOMAIN CRITICAL_PROTOCOLS,
        w \in { "as is", "lower", "upper" },
        b \in { <<>>, <<"(">>, <<"x">> },
        a \in { <<>>, <<".">>, <<"s">>, <<"2">>, <<"_">> },
        g \in BOOLEAN }

ProtocolText(m) ==
    m.before \o
    (CASE m.written = "lower" -> LowerText(m.protocol.name)
       [] m.written = "upper" -> UpperText(m.protocol.name)
       [] OTHER -> m.protocol.name)
    \o m.after \o
    (IF m.again THEN <<" ","-"," ">> \o m.protocol.name ELSE <<>>)

\* a heart rate of one digit more than int() accepts, alone or after
\* "morphine 20mg; "
LongMentions ==
    { [kind |-> "long", before |-> b,
       digits |-> [k \in 1..(INT_MAX_STR_DIGITS + 1) |-> "1"]] :
        b \in { <<>>, <<"m","o","r","p","h","i","n","e"," ","2","0","m","g",";"," ">> } }

Mentions ==
    { m \in VitalMentions : WellFormed(m) } \cup MedicationMentions
        \cup ProtocolMentions \cup LongMentions

MentionText(m) ==
    CASE m.kind = "vital" -> VitalText(m)
      [] m.kind = "med" -> MedicationText(m)
      [] m.kind = "protocol" -> ProtocolText(m)
      [] m.kind = "long" -> m.before \o <<"H","R",":"," ">> \o m.digits

\* all checks enabled, or all but one
MentionFlags ==
    { <<TRUE, TRUE, TRUE>>, <<FALSE, TRUE, TRUE>>, <<TRUE, FALSE, TRUE>>,
      <<TRUE, TRUE, FALSE>> }

InitMention ==
    /\ config \in { ScribeConfig(TRUE, TRUE) }
    /\ client = None
    /\ _whisper = None
    /\ pc = [i \in Inv |-> "idle"]
    /\ frame = [i \in Inv |-> NewFrame]
    /\ calls = [i \in Inv |-> <<>>]
    /\ result = [i \in Inv |-> NoneRec]
    /\ error = [i \in Inv |-> None]
    /\ wipes = 0
    /\ wipe_raised = FALSE
    /\ cli = NoCli
    /\ app = NoApp
    /\ upload = NoUpload
    /\ \E f \in MentionFlags, m \in Mentions :
          guard = [pc |-> "start", self |-> EDGuardrails(f[1], f[2], f[3]),
                   note |-> MentionText(m), ret |-> NoneRec, mention |-> m]

SpecMention == InitMention /\ [][NextGuard]_vars

(***************************************************************************)
(* Properties of GOATScribe.__call__, GOATScribe.wipe, cli.main and        *)
(* EDGuardrails.validate_note.                                             *)
(***************************************************************************)
\* the positions in calls[i] of the calls of one stage
EventsOf(i, op) == { k \in DOMAIN calls[i] : calls[i][k].op = op }

Issued(i, op) == Cardinality(EventsOf(i, op))

Succeeded(i, op) == \E k \in EventsOf(i, op) : calls[i][k].ok

\* between entry and return
InFlight(i) == pc[i] \notin {"idle", "returned", "raised"}

\* C1: in every invocation, with or without audio, the user text of the
\* drafting request is the anonymizer's output for the text of this
\* invocation (prefixed by /think when reasoning is on) and the user text of
\* the critique request is built from the draft; where the detector reported
\* a span the request is not the one the raw text would give
C1_RequestsFromAnonymizedText ==
    \A i \in Inv : \A k \in DOMAIN calls[i] :
        /\ calls[i][k].op = "draft" =>
              /\ Succeeded(i, "anonymize")
              /\ calls[i][k].arg.user =
                    DraftUserContent(config,
                        Anonymized(frame[i].prompt,
                                   SpanSet(frame[i].phi_results)))
              /\ frame[i].phi_results # <<>> =>
                    calls[i][k].arg.user #
                        DraftUserContent(config, frame[i].prompt)
        /\ calls[i][k].op = "critique" =>
              calls[i][k].arg.user = CritiqueUserContent(frame[i].draft)

\* an invocation with audio whose transcription held a detected span has
\* sent both completion requests
C1_Witness ==
    \E i \in Inv :
        /\ frame[i].audio # None
        /\ frame[i].phi_results # <<>>
        /\ Succeeded(i, "draft")
        /\ Issued(i, "critique") = 1

\* C2: in every run of main() that constructed a GOATScribe, wipe() has been
\* executed by the time main() returns, whatever the exit path
C2_WipeRunsBeforeExit ==
    (cli.pc = "exit" /\ cli.scribe # None) => wipes >= 1

ExternalCalls == {"analyze", "anonymize", "draft", "critique"}

ResultFields ==
    {"kind", "note", "phi_removed", "redaction_map", "fhir_bundle",
     "guardrail_safe", "guardrail_violations", "guardrail_report"}

\* C3: each external call is issued at most once per invocation; a failed
\* call ends the invocation with an error and without a result dictionary;
\* a result dictionary exists only for a returned invocation, whose four
\* external calls all succeeded, and it has all fields
C3_AllOrNothing ==
    \A i \in Inv :
        /\ \A op \in ExternalCalls : Issued(i, op) <= 1
        /\ (\E k \in DOMAIN calls[i] : ~calls[i][k].ok) =>
              (pc[i] = "raised" /\ error[i] # None)
        /\ error[i] # None => (pc[i] = "raised" /\ result[i] = NoneRec)
        /\ result[i] # NoneRec => pc[i] = "returned"
        /\ pc[i] = "returned" =>
              /\ error[i] = None
              /\ DOMAIN result[i] = ResultFields
              /\ \A op \in ExternalCalls : Succeeded(i, op)

\* the critique of an invocation failed after its draft succeeded
C3_Witness ==
    \E i \in Inv :
        /\ pc[i] = "raised"
        /\ error[i] = "OpenAIError"
        /\ Succeeded(i, "draft")
        /\ Issued(i, "critique") = 1
        /\ ~Succeeded(i, "critique")

\* C4: once the critique has succeeded the invocation raises no error: it
\* stands before the validation, before the bundle assembly or has returned;
\* a returned invocation carries the final note and the bundle built from
\* it, whatever guardrail_safe is
C4_GuardrailsAdvisory ==
    \A i \in Inv :
        /\ Succeeded(i, "critique") =>
              /\ error[i] = None
              /\ pc[i] \in {"guardrails", "to_fhir", "returned"}
        /\ pc[i] = "returned" =>
              /\ result[i].note = frame[i].final_note
              /\ result[i].fhir_bundle =
                    _to_fhir(frame[i].final_note, frame[i].patient_id)
              /\ result[i].guardrail_safe = frame[i].guardrail_safe

\* an invocation has returned a note with a critical violation
C4_Witness ==
    \E i \in Inv :
        /\ pc[i] = "returned"
        /\ ~result[i].guardrail_safe
        /\ result[i].guardrail_violations >= 1
        /\ result[i].fhir_bundle.resourceType = "Bundle"

\* C5: with guardrails enabled, a returned invocation has called
\* validate_note exactly once, on the note it returns, and its result holds
\* a report that is not None, the number of violations and the safety flag
\* of that validation
C5_ReportAlwaysProduced ==
    \A i \in Inv :
        (config.enable_guardrails /\ pc[i] = "returned") =>
            /\ Issued(i, "validate_note") = 1
            /\ \A k \in EventsOf(i, "validate_note") :
                  calls[i][k].arg = result[i].note
            /\ result[i].guardrail_report.kind = "str"
            /\ result[i].guardrail_violations =
                  Len(frame[i].guardrail_violations)
            /\ [is_safe |-> result[i].guardrail_safe,
                violations |-> frame[i].guardrail_violations] =
                  Validation[config][result[i].note]

\* a returned invocation whose validation found nothing
C5_Witness ==
    \E i \in Inv :
        /\ config.enable_guardrails
        /\ pc[i] = "returned"
        /\ result[i].guardrail_violations = 0
        /\ result[i].guardrail_safe
        /\ result[i].guardrail_report.kind = "str"

\* C6: validate_note returns is_safe = true exactly when no returned
\* violation has severity critical, for every note and every setting of the
\* three sub-check flags
C6_SafeIffNoCritical ==
    guard.pc = "done" =>
        (guard.ret.is_safe <=>
            \A k \in DOMAIN guard.ret.violations :
                guard.ret.violations[k].severity # "critical")

\* a note with a warning and no critical violation was found safe
C6_Witness ==
    /\ guard.pc = "done"
    /\ guard.ret.is_safe
    /\ \E k \in DOMAIN guard.ret.violations :
          guard.ret.violations[k].severity = "warning"

\* C7: an invocation called with an empty or whitespace-only prompt has
\* raised ValueError and has issued no call: no model load, transcription,
\* span detection, anonymization or completion request
C7_BlankPromptRejected ==
    \A i \in Inv :
        (pc[i] # "idle" /\ IsBlank(frame[i].arg_prompt)) =>
            /\ pc[i] = "raised"
            /\ error[i] = "ValueError"
            /\ calls[i] = <<>>
            /\ result[i] = NoneRec

\* a whitespace-only prompt given together with audio was rejected
C7_Witness ==
    \E i \in Inv :
        /\ pc[i] = "raised"
        /\ frame[i].arg_prompt = <<" ">>
        /\ frame[i].audio # None

\* the stages of __call__ after the transcription, in the order of the code
StageOrder(cfg) ==
    IF cfg.enable_guardrails
    THEN <<"analyze", "anonymize", "draft", "critique", "validate_note",
           "_to_fhir">>
    ELSE <<"analyze", "anonymize", "draft", "critique", "_to_fhir">>

IsTranscription(e) == e.op \in {"load_model", "transcribe"}

IsPipelineStage(e) == ~IsTranscription(e)

\* C8: the calls of an invocation, after those of the transcription, are a
\* prefix of detect, anonymize, draft, critique, validate, assemble; every
\* call but the last one has succeeded; a returned invocation has made all
\* of them, each once
C8_StagesInOrder ==
    \A i \in Inv :
        /\ Len(SelectSeq(calls[i], IsPipelineStage)) <= Len(StageOrder(config))
        /\ \A k \in DOMAIN SelectSeq(calls[i], IsPipelineStage) :
              SelectSeq(calls[i], IsPipelineStage)[k].op = StageOrder(config)[k]
        /\ \A k \in DOMAIN calls[i] :
              /\ k < Len(calls[i]) => calls[i][k].ok
              /\ IsTranscription(calls[i][k]) =>
                    \A j \in 1..k : IsTranscription(calls[i][j])
        /\ pc[i] = "returned" =>
              Len(SelectSeq(calls[i], IsPipelineStage)) = Len(StageOrder(config))

\* one invocation stopped at a failed anonymization, another returned
C8_Witness ==
    \E i, j \in Inv :
        /\ pc[i] = "raised"
        /\ error[i] = "AnonymizerError"
        /\ Issued(i, "anonymize") = 1
        /\ pc[j] = "returned"

\* C9: while an invocation is in flight, a step that is not its own changes
\* neither self.client nor self._whisper
C9_HandlesStableInFlight ==
    [][\A i \in Inv :
          (InFlight(i) /\ pc'[i] = pc[i]) =>
              (client' = client /\ _whisper' = _whisper)]_vars

\* C10: every call of wipe() raises nothing, leaves both handles released
\* and no invocation's state changed; called on a released session it
\* changes nothing but the count of calls
C10_WipeIdempotent ==
    [][wipes' = wipes + 1 =>
          /\ client' = None
          /\ _whisper' = None
          /\ ~wipe_raised'
          /\ pipeline' = pipeline
          /\ (client = None /\ _whisper = None) =>
                UNCHANGED <<config, client, _whisper, pipeline, wipe_raised,
                            cli, guard, app, upload>>]_vars

\* wipe() was called twice on a session that had loaded the audio model and
\* returned a note
C10_Witness ==
    /\ wipes >= 2
    /\ client = None
    /\ _whisper = None
    /\ \E i \in Inv : pc[i] = "returned" /\ Succeeded(i, "load_model")

\* C11: wipe() has been called exactly once for every finished request of
\* the web UI whose clinical text reached the pipeline
C11_WipeOncePerLifecycle ==
    wipes = Cardinality({ i \in Inv : app[i].pc = "done" /\ calls[i] # <<>> })

\* the violations of the finished validation that carry the given rule
Violations(rule) ==
    { k \in DOMAIN guard.ret.violations : guard.ret.violations[k].rule = rule }

\* C12: with the vitals check enabled, a heart-rate mention (HR, heart rate
\* or pulse in any letter case, then an integer v) gives one violation of
\* rule vital_signs_heart_rate if v < 20 or v > 250 and none otherwise, each
\* further out-of-range mention gives one more, and all of them are critical
C12_HeartRateRange ==
    (/\ guard.pc = "done"
     /\ guard.self.enable_vitals
     /\ guard.mention.kind = "vital"
     /\ guard.mention.vital = "heart_rate") =>
        /\ Cardinality(Violations("vital_signs_heart_rate")) =
              (IF \/ guard.mention.value.tenths < 10 * 20
                  \/ guard.mention.value.tenths > 10 * 250
               THEN 1 ELSE 0) + guard.mention.tail.out_of_range
        /\ \A k \in Violations("vital_signs_heart_rate") :
              guard.ret.violations[k].severity = "critical"

\* "pulse 251; HR: 260" gave two heart-rate violations
C12_Witness ==
    /\ guard.pc = "done"
    /\ guard.self.enable_vitals
    /\ guard.mention.kind = "vital"
    /\ guard.mention.label = <<"p","u","l","s","e">>
    /\ guard.mention.value.tenths = 2510
    /\ guard.mention.tail.out_of_range = 1
    /\ Cardinality(Violations("vital_signs_heart_rate")) = 2

\* a stated dose and a table maximum in tenths of a microgram
DoseAmount(dose, unit) ==
    dose.tenths * (IF unit = <<"m","c","g">> THEN 1 ELSE 1000)

LimitAmount(med) ==
    ((10 * med.max_dose.num) \div Pow10(med.max_dose.scale)) *
    (IF TableUnit(med) = <<"m","c","g">> THEN 1 ELSE 1000)

\* C13: with the medication check enabled, a dose stated with its unit is
\* flagged (a violation of the medication's rule) exactly when the stated dose
\* exceeds the table maximum, both taken in the same unit
C13_DoseUnitNormalized ==
    (/\ guard.pc = "done"
     /\ guard.self.enable_meds
     /\ guard.mention.kind = "med"
     /\ guard.mention.unit # <<>>) =>
        (Violations(guard.mention.med.rule) # {} <=>
            DoseAmount(guard.mention.dose, guard.mention.unit) >
                LimitAmount(guard.mention.med))

\* C14: with the protocol check enabled, each of the eight protocol names has
\* exactly one violation, of severity warning, when the name occurs in the
\* note as a whole word in any letter case, however often, and none
\* otherwise; no violation of a protocol rule is critical
C14_ProtocolWholeWordOnce ==
    (/\ guard.pc = "done"
     /\ guard.self.enable_protocols
     /\ guard.mention.kind = "protocol") =>
        /\ \A k \in DOMAIN CRITICAL_PROTOCOLS :
              Cardinality(Violations(CRITICAL_PROTOCOLS[k].rule)) =
                 (IF /\ CRITICAL_PROTOCOLS[k] = guard.mention.protocol
                     /\ guard.mention.whole
                  THEN 1 ELSE 0)
        /\ \A k \in DOMAIN guard.ret.violations :
              guard.ret.violations[k].severity = "warning"

\* "ACLS. - ACLS" was validated and gave one warning
C14_Witness ==
    /\ guard.pc = "done"
    /\ guard.self.enable_protocols
    /\ guard.note = <<"A","C","L","S","."," ","-"," ","A","C","L","S">>
    /\ Len(guard.ret.violations) = 1

\* C15: with the vitals check enabled, a labelled mention of any vital of the
\* range table (heart rate, systolic and diastolic pressure, respiratory
\* rate, temperature, SpO2, GCS) has a critical violation exactly when its
\* value lies outside the range of the table
C15_EveryVitalValidated ==
    (/\ guard.pc = "done"
     /\ guard.self.enable_vitals
     /\ guard.mention.kind = "vital"
     /\ guard.mention.tail.text = <<>>) =>
        ((\E k \in DOMAIN guard.ret.violations :
              guard.ret.violations[k].severity = "critical") <=>
         (\/ guard.mention.value.tenths < 10 * VITAL_RANGES[guard.mention.vital][1]
          \/ guard.mention.value.tenths > 10 * VITAL_RANGES[guard.mention.vital][2]))

C17_BundleShape ==
    \A i \in Inv :
        pc[i] = "returned" =>
            LET b == result[i].fhir_bundle
                given == frame[i].arg_patient_id
            IN  /\ b.resourceType = "Bundle"
                /\ b.type = "document"
                /\ Len(b.entry) = 2
                /\ b.entry[1].resource.resourceType = "Patient"
                /\ b.entry[1].resource.id =
                      (IF given = Omitted THEN "anon-001" ELSE given)
                /\ b.entry[1].fullUrl = <<"Patient/", b.entry[1].resource.id>>
                /\ b.entry[2].resource.resourceType = "DocumentReference"
                /\ Len(b.entry[2].resource.content) = 1
                /\ b.entry[2].resource.content[1].attachment =
                      [contentType |-> "text/plain", data |-> result[i].note]

\* an invocation returned for a call without patient identifier
C17_Witness ==
    /\ pc[1] = "returned"
    /\ frame[1].arg_patient_id = Omitted
    /\ result[1].fhir_bundle.entry[1].resource.id = "anon-001"
    /\ result[1].fhir_bundle.entry[2].resource.content[1].attachment.data =
          <<"H","R",":"," ","2","6","0">>

\* the POST of the upload was answered with a status code that satisfies P
PostAnswered(P(_)) ==
    /\ upload.pc = "done"
    /\ Len(upload.requests) = 2
    /\ upload.requests[2].ok
    /\ P(upload.requests[2].arg.status_code)

Is2xx(s) == s >= 200 /\ s < 300

Is4xx5xx(s) == s >= 400 /\ s < 600

C20_FinalNoteEverywhere ==
    \A i \in Inv :
        pc[i] = "returned" =>
            /\ result[i].note = frame[i].final_note
            /\ result[i].fhir_bundle.entry[2].resource.content[1].attachment.data
                  = result[i].note
            /\ \A k \in EventsOf(i, "_to_fhir") : calls[i][k].arg = result[i].note
            /\ \A k \in EventsOf(i, "validate_note") :
                  calls[i][k].arg = result[i].note
            /\ Issued(i, "validate_note") =
                  (IF Guardrails(config) # NoneRec THEN 1 ELSE 0)
            /\ Guardrails(config) # NoneRec =>
                  result[i].guardrail_safe =
                      Validation[config][result[i].note].is_safe
            /\ \E k \in EventsOf(i, "critique") :
                  /\ calls[i][k].ok
                  /\ calls[i][k].arg = CritiqueRequest(frame[i].draft)
                  /\ \A j \in EventsOf(i, "validate_note") \cup EventsOf(i, "_to_fhir") :
                        k < j

\* an invocation returned "ok" after the draft "HR: 260"
C20_Witness ==
    \E i \in Inv :
        /\ pc[i] = "returned"
        /\ frame[i].draft = <<"H","R",":"," ","2","6","0">>
        /\ result[i].note = <<"o","k">>
        /\ result[i].guardrail_safe

\* C19: validate_note returns a report for every note and never raises
C19_ValidateNoteTotal ==
    guard.pc # "raised"

\* what a sub-check contributes under its flag
WhenEnabled(flag, violations) == IF flag THEN violations ELSE <<>>

\* C21: for every note and every setting of the three flags, the violations
\* validate_note returns are the violations of the vitals check, then those
\* of the medication check, then those of the protocol check, each present
\* exactly when its flag is set
C21_SubChecksIndependent ==
    guard.pc = "done" =>
        guard.ret.violations =
            WhenEnabled(guard.self.enable_vitals, _check_vitals(guard.note))
            \o WhenEnabled(guard.self.enable_meds, _check_medications(guard.note))
            \o WhenEnabled(guard.self.enable_protocols, _check_protocols(guard.note))

\* "HR: 260 morphine 20mg" validated with the vitals check switched off and
\* the two others on: the morphine violation alone
C21_Witness ==
    /\ guard.pc = "done"
    /\ guard.self = EDGuardrails(FALSE, TRUE, TRUE)
    /\ guard.note = <<"H","R",":"," ","2","6","0"," ",
                      "m","o","r","p","h","i","n","e"," ","2","0","m","g">>
    /\ Len(guard.ret.violations) = 1
    /\ guard.ret.violations[1].rule = "medication_morphine_dose"

\* C22: in every invocation, with or without audio, the text passed to the
\* span detection and to the anonymization is neither empty nor
\* whitespace-only
C22_RedactorTextNotBlank ==
    \A i \in Inv :
        \A k \in EventsOf(i, "analyze") \cup EventsOf(i, "anonymize") :
            ~IsBlank(calls[i][k].arg)

\* C23: once the client handle is released no step creates it again, and an
\* invocation that reaches the drafting stage without it ends there with an
\* error, with no request added to its calls and with no result
C23_NoDraftAfterWipe ==
    [][client = None =>
          /\ client' = None
          /\ \A i \in Inv :
                (pc[i] = "draft" /\ pc'[i] # pc[i]) =>
                    /\ pc'[i] = "raised"
                    /\ error'[i] = "AttributeError"
                    /\ calls'[i] = calls[i]
                    /\ result'[i] = NoneRec]_vars

\* after a wipe() an invocation went through span detection and
\* anonymization and failed at the drafting stage without a request
C23_Witness ==
    \E i \in Inv :
        /\ wipes >= 1
        /\ pc[i] = "raised"
        /\ error[i] = "AttributeError"
        /\ Succeeded(i, "analyze")
        /\ Succeeded(i, "anonymize")
        /\ Issued(i, "draft") = 0
        /\ result[i] = NoneRec

\* C24: with guardrails disabled in the configuration no invocation calls
\* validate_note, and every returned result has guardrail_safe = true,
\* guardrail_violations = 0 and guardrail_report = None, whatever the note
C24_DisabledMeansUnvalidated ==
    ~config.enable_guardrails =>
        \A i \in Inv :
            /\ Issued(i, "validate_note") = 0
            /\ pc[i] = "returned" =>
                  /\ result[i].guardrail_safe
                  /\ result[i].guardrail_violations = 0
                  /\ result[i].guardrail_report = NoneRec

\* with guardrails disabled an invocation returned "HR: 260", which the
\* enabled guardrails find unsafe, with guardrail_safe = true
C24_Witness ==
    \E i \in Inv :
        /\ ~config.enable_guardrails
        /\ pc[i] = "returned"
        /\ result[i].note = <<"H","R",":"," ","2","6","0">>
        /\ result[i].guardrail_safe
        /\ ~Validation[ScribeConfig(TRUE, TRUE)][result[i].note].is_safe

====
